---- MODULE Spec2Model ----
(***************************************************************************)
(* Points ledger, order state machine and weekly reward reconciler of the  *)
(* Diamond Store backend (routes/orders.js, routes/users.js).              *)
(*                                                                         *)
(* The datastore is MySQL/InnoDB reached through a connection pool.  A     *)
(* handler's transaction buffers its writes and publishes them at COMMIT;  *)
(* plain SELECTs are non-locking reads of committed data (inside a         *)
(* transaction: of the snapshot taken by its first SELECT).  Every balance *)
(* write of the code is the relative increment                             *)
(* "points_balance = points_balance +/- ?", so the row lock it takes only  *)
(* orders increments that commute; the buffered write is applied to the    *)
(* committed row at COMMIT.  Money is counted in cents (2 decimals).       *)
(* created_at orders the rows of a table in the order of their insertion.  *)
(***************************************************************************)
EXTENDS Integers, Sequences, FiniteSets, TLC

\* ---------------------------------------------------------------- bounds
MaxOrders == 2
MaxGrants == 1
MaxPointRequests == 1
MaxWeek == 1
MaxSalesTens == 12000
MaxDays == 7
MaxStreams == 3

\* ------------------------------------------------- the enumerated inputs
Users == {"u1"}
Procs == {"p1", "p2"}
DIAMOND_PACKAGES == {10, 50, 100, 200, 500, 1000, 2000, 5000, 10000}
\* a value of the request body: the integer its text begins with, and the
\* text that follows the integer ("" when the value is that integer)
InputText(digits, rest) == [digits |-> digits, rest |-> rest]
Exact(n) == InputText(n, "")
DiamondInputs == {Exact(7), Exact(5000)}
QuantityInputs == {Exact(0), Exact(2)}
RawDiamondInputs == DiamondInputs \cup {InputText(5000, ".5")}
RawQuantityInputs == QuantityInputs \cup {InputText(2, ".5")}
\* orders of 500, 4500 and 5000 (and of 45000, which no balance covers)
SalesDiamondInputs == {Exact(500), Exact(5000)}
SalesQuantityInputs == {Exact(1), Exact(9)}
StatusInputs == {"COMPLETED", "REJECTED", "PENDING"}
GrantAmounts == {15000}
PointRequestAmounts == {5000}
PointRequestActions == {"approve", "reject"}

\* Number.MAX_SAFE_INTEGER, cut to the checker's integer range
MAX_SAFE_INTEGER == 2147483647
MaxOrderPoints == 1000000
MaxGrantAmount == 1000000
MinQuantity == 1
MaxQuantity == 100
RewardThreshold == 4500
Tier2Start == 18000
Tier3Start == 45000
Tier4Start == 90000
Tier1Rate == 10
Tier2Rate == 16
Tier3Rate == 21
Tier4Rate == 26

\* descriptions: the literal prefix of the text and the number that
\* /Weekly Sale Reward: ([\d.]+)/ reads out of it (in cents)
RewardPrefix == "Weekly Sale Reward"
QuickStore == [prefix |-> "Quick Store", value |-> 0]
RewardLikeText == [prefix |-> RewardPrefix, value |-> 10000]
GrantDescriptions == {QuickStore, RewardLikeText}

Cents(points) == points * 100

\* ---- the text of a reward description: a sequence whose first element is
\* the literal tag and whose other elements are single characters
DigitChars == <<"0", "1", "2", "3", "4", "5", "6", "7", "8", "9">>
IsDigit(c) == \E d \in 1..10 : DigitChars[d] = c
DigitValue(c) == (CHOOSE d \in 1..10 : DigitChars[d] = c) - 1

\* the decimal digits of a natural number
RECURSIVE Digits(_)
Digits(n) ==
  IF n < 10 THEN <<DigitChars[n + 1]>>
  ELSE Append(Digits(n \div 10), DigitChars[(n % 10) + 1])

\* Number.prototype.toFixed(2) of an amount, which is held in cents
toFixed(amount) ==
  Digits(amount \div 100)
    \o <<".", DigitChars[(amount % 100) \div 10 + 1],
          DigitChars[(amount % 10) + 1]>>

\* the total is written with grouped thousands, as toLocaleString does
rewardDescription_GroupedTotal(totalReward, weeklySales) ==
  LET units == totalReward \div 100
      fixed == toFixed(totalReward)
      grouped == IF units < 1000 THEN fixed
                 ELSE SubSeq(fixed, 1, Len(fixed) - 6) \o <<",">>
                      \o SubSeq(fixed, Len(fixed) - 5, Len(fixed))
  IN <<"Weekly Sale Reward", ":", " ">> \o grouped
       \o <<" ", "(", "S", "a", "l", "e", "s", ":", " ">>
       \o Digits(weeklySales) \o <<")">>

\* `Weekly Sale Reward: ${totalReward.toFixed(2)} (Sales: ${weeklySales
\* .toLocaleString()})`; weekly_sales is a DECIMAL sum, which the driver
\* hands over as its digits
rewardDescription(totalReward, weeklySales) ==
  <<"Weekly Sale Reward", ":", " ">> \o toFixed(totalReward)
    \o <<" ", "(", "S", "a", "l", "e", "s", ":", " ">>
    \o Digits(weeklySales) \o <<")">>

\* the number of characters of [\d.] that text holds from position i on
RECURSIVE RunLength(_, _)
RunLength(text, i) ==
  IF i > Len(text) THEN 0
  ELSE IF IsDigit(text[i]) \/ text[i] = "." THEN 1 + RunLength(text, i + 1)
  ELSE 0

\* the number of digits that text holds from position i on
RECURSIVE DigitRun(_, _)
DigitRun(text, i) ==
  IF i > Len(text) THEN 0
  ELSE IF IsDigit(text[i]) THEN 1 + DigitRun(text, i + 1)
  ELSE 0

\* the natural number that a sequence of digits writes
RECURSIVE Natural(_)
Natural(digits) ==
  IF Len(digits) = 0 THEN 0
  ELSE 10 * Natural(SubSeq(digits, 1, Len(digits) - 1))
       + DigitValue(digits[Len(digits)])

\* NaN compares false with every number: it stands above every total
NaN == 2147483647

\* parseFloat: the digits, and the digits after the first point; in cents
\* (the texts of the reconciler carry exactly two decimals)
parseFloat(text) ==
  LET whole == DigitRun(text, 1)
      point == whole < Len(text) /\ text[whole + 1] = "."
      decimals == IF point THEN DigitRun(text, whole + 2) ELSE 0
      tenths == IF decimals >= 1 THEN DigitValue(text[whole + 2]) ELSE 0
      hundredths == IF decimals >= 2 THEN DigitValue(text[whole + 3]) ELSE 0
  IN IF whole = 0 /\ decimals = 0 THEN NaN
     ELSE 100 * Natural(SubSeq(text, 1, whole)) + 10 * tenths + hundredths

\* description LIKE 'Weekly Sale Reward%'
LikeWeeklySaleReward(description) ==
  Len(description) > 0 /\ description[1] = "Weekly Sale Reward"

\* description.match(/Weekly Sale Reward: ([\d.]+)/), then
\* match ? parseFloat(match[1]) : 0
existingRewardAmount(description) ==
  LET match == /\ Len(description) >= 4
               /\ SubSeq(description, 1, 3) = <<"Weekly Sale Reward", ":", " ">>
               /\ RunLength(description, 4) > 0
  IN IF match
     THEN parseFloat(SubSeq(description, 4, 3 + RunLength(description, 4)))
     ELSE 0

\* what the reconciler's lookup sees of a description: whether it begins
\* with the tag, and the amount that the regular expression reads
MarkerOf(description) ==
  [prefix |-> IF LikeWeeklySaleReward(description) THEN RewardPrefix
              ELSE "none",
   value |-> existingRewardAmount(description)]

Min(a, b) == IF a < b THEN a ELSE b

VARIABLES
  balance,    \* users.points_balance, in cents
  ledger,     \* the transactions table, in insertion order
  orders,     \* the orders table; the index is orders.id
  requests,   \* the point_requests table; the index is point_requests.id
  week,       \* the reward period the wall clock is in
  grants,     \* number of admin grants made
  proc,       \* per request slot: position and locals of the handler
  pre,        \* sequential runs: the datastore when the current handler began
  last,       \* sequential runs: summary of the handler that finished last
  lastRec,    \* sequential runs: per user, the last finished reconcile call
  calc,       \* the last call of a pure calculator: function, input, result
  stream      \* the status streams: the subscriber registry and the responses

db == <<balance, ledger, orders, requests>>
vars == <<balance, ledger, orders, requests, week, grants, proc, pre, last,
          lastRec, calc, stream>>

\* ------------------------------------------------------------- helpers
SignedAmount(e) ==
  IF e.type = "DEDUCTED" THEN 0 - e.amount ELSE e.amount

RECURSIVE LedgerSumTo(_, _)
LedgerSumTo(u, n) ==
  IF n = 0 THEN 0
  ELSE (IF ledger[n].user = u THEN SignedAmount(ledger[n]) ELSE 0)
       + LedgerSumTo(u, n - 1)

\* the signed sum of the user's ledger entries
LedgerSum(u) == LedgerSumTo(u, Len(ledger))

\* parseInt reads the integer the text begins with and ignores the rest
parseInt(value) == value.digits

\* validateInteger(value, min, max): null (here 0, which every caller
\* treats like null) when out of range
validateInteger(value, min, max) ==
  LET num == parseInt(value)
  IN IF num < min \/ num > max THEN 0 ELSE num

\* the whole of the sales above the threshold is charged at the rate of the
\* band the sales have reached
computeReward_AverageRate(weeklySales) ==
  LET rate == IF weeklySales > Tier4Start THEN Tier4Rate
              ELSE IF weeklySales > Tier3Start THEN Tier3Rate
              ELSE IF weeklySales > Tier2Start THEN Tier2Rate
              ELSE Tier1Rate
  IN IF weeklySales > RewardThreshold
     THEN ((weeklySales - RewardThreshold) * rate + 5) \div 10
     ELSE 0

\* the tiered reward of calculateAndAddWeeklyReward, in cents; the sum is
\* taken in tenths of a cent and Math.round(x * 100) / 100 rounds half up
computeReward(weeklySales) ==
  LET tier1 == IF weeklySales > RewardThreshold
               THEN Min(weeklySales, Tier2Start) - RewardThreshold ELSE 0
      tier2 == IF weeklySales > Tier2Start
               THEN Min(weeklySales, Tier3Start) - Tier2Start ELSE 0
      tier3 == IF weeklySales > Tier3Start
               THEN Min(weeklySales, Tier4Start) - Tier3Start ELSE 0
      tier4 == IF weeklySales > Tier4Start
               THEN weeklySales - Tier4Start ELSE 0
      mills == tier1 * Tier1Rate + tier2 * Tier2Rate
               + tier3 * Tier3Rate + tier4 * Tier4Rate
  IN (mills + 5) \div 10

\* the first band starts at 0, not at the threshold
dashboardTotalReward_BandFromZero(weeklySales) ==
  IF weeklySales > RewardThreshold
  THEN computeReward(weeklySales) + (RewardThreshold * Tier1Rate) \div 10
  ELSE 0

\* the dashboard's copy of the tiers: each tier's reward is kept in a
\* variable of its own and added to totalReward, then the same rounding
dashboardTotalReward(weeklySales) ==
  LET tier1Reward == IF weeklySales > RewardThreshold
                     THEN (Min(weeklySales, Tier2Start) - RewardThreshold)
                          * Tier1Rate
                     ELSE 0
      tier2Reward == IF weeklySales > Tier2Start
                     THEN (Min(weeklySales, Tier3Start) - Tier2Start)
                          * Tier2Rate
                     ELSE 0
      tier3Reward == IF weeklySales > Tier3Start
                     THEN (Min(weeklySales, Tier4Start) - Tier3Start)
                          * Tier3Rate
                     ELSE 0
      tier4Reward == IF weeklySales > Tier4Start
                     THEN (weeklySales - Tier4Start) * Tier4Rate
                     ELSE 0
  IN (tier1Reward + tier2Reward + tier3Reward + tier4Reward + 5) \div 10

RECURSIVE SalesTo(_, _, _)
SalesTo(u, w, n) ==
  IF n = 0 THEN 0
  ELSE (IF orders[n].user = u /\ orders[n].status = "COMPLETED"
           /\ orders[n].week = w
        THEN orders[n].diamondAmount * orders[n].quantity ELSE 0)
       + SalesTo(u, w, n - 1)

\* SUM(diamond_amount * quantity) over the user's COMPLETED orders created
\* in [weekStart, weekEnd) of period w
WeeklySales(u, w) == SalesTo(u, w, Len(orders))

\* rows that the lookup's WHERE clause selects among the first n rows
RewardRows(u, w, n) ==
  {i \in 1..n : /\ ledger[i].user = u
                /\ ledger[i].type = "ADDED"
                /\ ledger[i].desc.prefix = RewardPrefix
                /\ ledger[i].week >= w}

Max(S) == CHOOSE x \in S : \A y \in S : y <= x

\* the lookup has no lower bound on created_at: the most recent reward row
\* of any period is taken
ExistingReward_AllPeriods(u, w, n) ==
  IF RewardRows(u, 0, n) = {} THEN -1
  ELSE ledger[Max(RewardRows(u, 0, n))].desc.value

\* ORDER BY created_at DESC LIMIT 1, then the regex: -1 when no row exists
ExistingReward(u, w, n) ==
  IF RewardRows(u, w, n) = {} THEN -1
  ELSE ledger[Max(RewardRows(u, w, n))].desc.value

\* the whole reward is credited again, the existing row is not subtracted
RewardToAdd_IgnoresExisting(totalReward, existing) == totalReward

\* rewardToAdd from totalReward and the existing row's amount
RewardToAdd(totalReward, existing) ==
  IF existing = -1 THEN totalReward
  ELSE IF totalReward > existing THEN totalReward - existing ELSE 0

NoOrder == [user |-> "none", pointsUsed |-> 0]

Idle ==
  [pc |-> "idle", user |-> "none", id |-> 0, arg |-> "none",
   amt |-> 0, qty |-> 0, points |-> 0,
   row |-> NoOrder, w |-> 0, snap |-> 0, sales |-> 0, total |-> 0,
   delta |-> 0, caller |-> "none"]

NoRec == [valid |-> FALSE, w0 |-> 0, w1 |-> 0, sales |-> 0]
NoLast == [kind |-> "none", user |-> "none", resp |-> "none", added |-> FALSE,
           impl |-> "none", caller |-> "none", w0 |-> 0, w1 |-> 0,
           sales |-> 0, credited |-> 0, prev |-> NoRec]
NoRequest == [kind |-> "none", user |-> "none", id |-> 0, arg |-> "none",
              amt |-> 0, qty |-> 0]
NoPre == [balance |-> [u \in Users |-> 0], ledger |-> <<>>, orders |-> <<>>,
          requests |-> <<>>, prevKind |-> "none", prevImpl |-> "none",
          prevUser |-> "none", prevId |-> 0, req |-> NoRequest]

NoCalc == [fn |-> "none", arg |-> 0, out |-> 0, end |-> 0]

\* ---- the status streams (utils/pendingStatusStream, GET /status-stream)
\* the id numbers that are streamed, and the response objects
IdNumbers == {"id1", "id2"}
Responses == 1..MaxStreams
NotifiedStatuses == {"PENDING", "APPROVED", "REJECTED"}

\* no entry of the Map for a key
Undefined == [has |-> FALSE, set |-> {}]

\* a response: where its request stands, the key it subscribed under,
\* whether its keep-alive interval is set, whether end() was called on it,
\* whether a write to it threw, and which code wrote to it after it had
\* been removed from the registry or had failed
NoResponse ==
  [phase |-> "none", key |-> "none", interval |-> FALSE, ended |-> FALSE,
   failed |-> FALSE, writtenAfter |-> "none"]

NoStreams ==
  [subscribers |-> [key \in IdNumbers |-> Undefined],
   res |-> [r \in Responses |-> NoResponse],
   notified |-> [idNumber |-> "none", status |-> "none", turn |-> 0]]

Init ==
  /\ balance = [u \in Users |-> 0]
  /\ ledger = <<>>
  /\ orders = <<>>
  /\ requests = <<>>
  /\ week = 0
  /\ grants = 0
  /\ proc = [p \in Procs |-> Idle]
  /\ pre = NoPre
  /\ last = NoLast
  /\ lastRec = [u \in Users |-> NoRec]
  /\ calc = NoCalc
  /\ stream = NoStreams

\* ------------------------------------------------------ sequential runs
AllIdle == \A p \in Procs : proc[p].pc = "idle"

\* a sequential run starts a handler only when no other one is running,
\* and serves every request in the same slot
MayBegin(p, seq) ==
  /\ proc[p].pc = "idle"
  /\ seq => (AllIdle /\ p = CHOOSE q \in Procs : TRUE)

\* the datastore as the request req finds it, which handler finished just
\* before, and the id of the order or point request that handler served
Snapshot(req) ==
  [balance |-> balance, ledger |-> ledger, orders |-> orders,
   requests |-> requests, prevKind |-> last.kind, prevImpl |-> last.impl,
   prevUser |-> last.user, prevId |-> pre.req.id, req |-> req]

Request(kind, u, id, arg, amt, qty) ==
  [kind |-> kind, user |-> u, id |-> id, arg |-> arg, amt |-> amt, qty |-> qty]

Summary(kind, u, resp) ==
  [NoLast EXCEPT !.kind = kind, !.user = u, !.resp = resp]

Begin(seq, req) == pre' = IF seq THEN Snapshot(req) ELSE pre

Finish(p, seq, summary) ==
  /\ proc' = [proc EXCEPT ![p] = Idle]
  /\ last' = IF seq THEN summary ELSE last

Entry(u, amount, type, desc, ref, admin) ==
  [user |-> u, amount |-> amount, type |-> type, desc |-> desc,
   ref |-> ref, admin |-> admin, week |-> week]

Text(prefix) == [prefix |-> prefix, value |-> 0]

\* the clock passes a Thursday 21:30 boundary
Tick ==
  /\ week < MaxWeek
  /\ week' = week + 1
  /\ UNCHANGED <<calc, stream, balance, ledger, orders, requests, grants, proc, pre, last,
                 lastRec>>

\* ----------------------------------------------- POST /orders/request
OrdersInFlight == Cardinality({p \in Procs : proc[p].pc = "co_tx"})

\* input validation, pointsNeeded, and "Check user has enough points": a
\* read of the balance before the transaction begins
\* the balance is compared with one package, not with amount x quantity
CreateOrderError_IgnoresQuantity(u, validatedAmount, validatedQty) ==
  IF validatedAmount = 0 \/ validatedAmount \notin DIAMOND_PACKAGES
  THEN "Invalid diamond amount"
  ELSE IF validatedQty = 0 THEN "Quantity must be between 1 and 100"
  ELSE IF validatedAmount * validatedQty > MaxOrderPoints
  THEN "Order amount too large"
  ELSE IF balance[u] < Cents(validatedAmount) THEN "Insufficient points"
  ELSE "none"

\* the 400 responses of the handler, in the order the code tests them
CreateOrderError(u, validatedAmount, validatedQty) ==
  IF validatedAmount = 0 \/ validatedAmount \notin DIAMOND_PACKAGES
  THEN "Invalid diamond amount"
  ELSE IF validatedQty = 0 THEN "Quantity must be between 1 and 100"
  ELSE IF validatedAmount * validatedQty > MaxOrderPoints
  THEN "Order amount too large"
  ELSE IF balance[u] < Cents(validatedAmount * validatedQty)
  THEN "Insufficient points"
  ELSE "none"

CreateOrderCheck(p, u, diamondAmount, quantity, seq) ==
  LET validatedAmount == validateInteger(diamondAmount, 0, MAX_SAFE_INTEGER)
      validatedQty == validateInteger(quantity, MinQuantity, MaxQuantity)
      totalDiamonds == validatedAmount * validatedQty
      pointsNeeded == totalDiamonds
      error == CreateOrderError(u, validatedAmount, validatedQty)
  IN /\ MayBegin(p, seq)
     /\ Len(orders) + OrdersInFlight < MaxOrders
     /\ Begin(seq, Request("createOrder", u, 0, "none", diamondAmount, quantity))
     /\ IF error # "none"
        THEN Finish(p, seq, Summary("createOrder", u, error))
        ELSE /\ proc' = [proc EXCEPT ![p] =
                  [Idle EXCEPT !.pc = "co_tx", !.user = u,
                     !.amt = validatedAmount, !.qty = validatedQty,
                     !.points = pointsNeeded]]
             /\ UNCHANGED last
     /\ UNCHANGED <<calc, stream, balance, ledger, orders, requests, week, grants, lastRec>>

\* the order is inserted and the balance lowered, no DEDUCTED row is written
CreateOrderCommit_NoLedgerRow(p, postError, seq) ==
  LET u == proc[p].user
      pointsNeeded == proc[p].points
      resp == IF postError THEN "Failed to create order" ELSE "created"
  IN /\ proc[p].pc = "co_tx"
     /\ orders' = Append(orders,
          [user |-> u, diamondAmount |-> proc[p].amt,
           quantity |-> proc[p].qty, pointsUsed |-> pointsNeeded,
           status |-> "PENDING", week |-> week])
     /\ balance' = [balance EXCEPT ![u] = @ - Cents(pointsNeeded)]
     /\ Finish(p, seq, Summary("createOrder", u, resp))
     /\ UNCHANGED <<calc, stream, ledger, requests, week, grants, pre, lastRec>>

\* the transaction: INSERT orders, UPDATE users, INSERT transactions, COMMIT,
\* then the reads after the commit, which may still throw (postError)
CreateOrderCommit(p, postError, seq) ==
  LET u == proc[p].user
      pointsNeeded == proc[p].points
      resp == IF postError THEN "Failed to create order" ELSE "created"
  IN /\ proc[p].pc = "co_tx"
     /\ orders' = Append(orders,
          [user |-> u, diamondAmount |-> proc[p].amt,
           quantity |-> proc[p].qty, pointsUsed |-> pointsNeeded,
           status |-> "PENDING", week |-> week])
     /\ balance' = [balance EXCEPT ![u] = @ - Cents(pointsNeeded)]
     /\ ledger' = Append(ledger,
          Entry(u, Cents(pointsNeeded), "DEDUCTED", Text("Diamond request"),
                Len(orders) + 1, FALSE))
     /\ Finish(p, seq, Summary("createOrder", u, resp))
     /\ UNCHANGED <<calc, stream, requests, week, grants, pre, lastRec>>

\* the INSERT INTO orders throws ER_BAD_FIELD_ERROR: nothing was written;
\* the connection is released with its empty transaction still open, 500
CreateOrderSchemaError(p, seq) ==
  /\ proc[p].pc = "co_tx"
  /\ Finish(p, seq,
            Summary("createOrder", proc[p].user, "Database schema error"))
  /\ UNCHANGED <<calc, stream, balance, ledger, orders, requests, week, grants, pre, lastRec>>

\* a statement of the transaction throws: rollback, 500
CreateOrderFail(p, seq) ==
  /\ proc[p].pc = "co_tx"
  /\ Finish(p, seq, Summary("createOrder", proc[p].user, "rolled back"))
  /\ UNCHANGED <<calc, stream, balance, ledger, orders, requests, week, grants, pre, lastRec>>

\* ------------------------------------------ PATCH /orders/:orderId/status
\* input validation, beginTransaction, SELECT * FROM orders WHERE id = ?,
\* and the PENDING check
\* the status of the row that was read is not tested
UpdateStatusError_NoPendingTest(orderId, status) ==
  IF orderId <= 0 THEN "Invalid order ID"
  ELSE IF status \notin {"COMPLETED", "REJECTED"} THEN "Invalid status"
  ELSE IF orderId > Len(orders) THEN "Order not found"
  ELSE "none"

\* the 400 and 404 responses of the handler, in the order the code tests them
UpdateStatusError(orderId, status) ==
  IF orderId <= 0 THEN "Invalid order ID"
  ELSE IF status \notin {"COMPLETED", "REJECTED"} THEN "Invalid status"
  ELSE IF orderId > Len(orders) THEN "Order not found"
  ELSE IF orders[orderId].status # "PENDING" THEN "Order is not pending"
  ELSE "none"

UpdateStatusRead(p, orderId, status, seq) ==
  LET error == UpdateStatusError(orderId, status)
  IN /\ MayBegin(p, seq)
     /\ Begin(seq, Request("updateStatus", "none", orderId, status, 0, 0))
     /\ IF error # "none"
        THEN Finish(p, seq, Summary("updateStatus", "none", error))
        ELSE /\ proc' = [proc EXCEPT ![p] =
                  [Idle EXCEPT !.pc = "us_tx", !.id = orderId, !.arg = status,
                     !.row = [user |-> orders[orderId].user,
                              pointsUsed |-> orders[orderId].pointsUsed]]]
             /\ UNCHANGED last
     /\ UNCHANGED <<calc, stream, balance, ledger, orders, requests, week, grants, lastRec>>

\* the refund is credited to the balance, no REFUNDED row is written
UpdateStatusCommit_NoRefundRow(p, seq) ==
  LET orderId == proc[p].id
      statusUpper == proc[p].arg
      order == proc[p].row
  IN /\ proc[p].pc = "us_tx"
     /\ orders' = [orders EXCEPT ![orderId].status = statusUpper]
     /\ IF statusUpper = "REJECTED"
        THEN /\ balance' = [balance EXCEPT
                  ![order.user] = @ + Cents(order.pointsUsed)]
             /\ UNCHANGED ledger
             /\ Finish(p, seq, Summary("updateStatus", order.user, "ok"))
        ELSE /\ UNCHANGED <<balance, ledger, last>>
             /\ proc' = [proc EXCEPT ![p].pc = "rc_sales",
                  ![p].user = order.user, ![p].caller = "order"]
     /\ UNCHANGED <<calc, stream, requests, week, grants, pre, lastRec>>

\* UPDATE orders SET status, the refund when REJECTED, COMMIT; a COMPLETED
\* order goes on to calculateAndAddWeeklyReward(order.user_id)
UpdateStatusCommit(p, seq) ==
  LET orderId == proc[p].id
      statusUpper == proc[p].arg
      order == proc[p].row
  IN /\ proc[p].pc = "us_tx"
     /\ orders' = [orders EXCEPT ![orderId].status = statusUpper]
     /\ IF statusUpper = "REJECTED"
        THEN /\ balance' = [balance EXCEPT
                  ![order.user] = @ + Cents(order.pointsUsed)]
             /\ ledger' = Append(ledger,
                  Entry(order.user, Cents(order.pointsUsed), "REFUNDED",
                        Text("Order rejected"), orderId, TRUE))
             /\ Finish(p, seq, Summary("updateStatus", order.user, "ok"))
        ELSE /\ UNCHANGED <<balance, ledger, last>>
             /\ proc' = [proc EXCEPT ![p].pc = "rc_sales",
                  ![p].user = order.user, ![p].caller = "order"]
     /\ UNCHANGED <<calc, stream, requests, week, grants, pre, lastRec>>

\* the error comes after UPDATE orders and the status survives it
UpdateStatusFail_KeepsStatus(p, seq) ==
  /\ proc[p].pc = "us_tx"
  /\ orders' = [orders EXCEPT ![proc[p].id].status = proc[p].arg]
  /\ Finish(p, seq, Summary("updateStatus", proc[p].row.user, "rolled back"))
  /\ UNCHANGED <<calc, stream, balance, ledger, requests, week, grants, pre, lastRec>>

\* a statement of the transaction throws: rollback, 500
UpdateStatusFail(p, seq) ==
  /\ proc[p].pc = "us_tx"
  /\ Finish(p, seq, Summary("updateStatus", proc[p].row.user, "rolled back"))
  /\ UNCHANGED <<calc, stream, balance, ledger, orders, requests, week, grants, pre, lastRec>>

\* ------------------------------------------- calculateAndAddWeeklyReward
\* a reconcile call returns: its result, and the record of the call
ReconcileFinish(p, seq, impl, caller, u, w0, sales, resp, added, credited) ==
  /\ Finish(p, seq,
       [kind |-> "reconcile", user |-> u, resp |-> resp, added |-> added,
        impl |-> impl, caller |-> caller, w0 |-> w0, w1 |-> week,
        sales |-> sales, credited |-> credited, prev |-> lastRec[u]])
  /\ lastRec' = IF seq
                THEN [lastRec EXCEPT ![u] =
                        [valid |-> TRUE, w0 |-> w0, w1 |-> week,
                         sales |-> sales]]
                ELSE lastRec

Returned(p) == IF proc[p].caller = "order" THEN "ok" ELSE "returned"

\* the exported function called on its own
ReconcileStart(p, u, seq) ==
  /\ MayBegin(p, seq)
  /\ Begin(seq, Request("reconcile", u, 0, "none", 0, 0))
  /\ proc' = [proc EXCEPT ![p] =
       [Idle EXCEPT !.pc = "rc_sales", !.user = u,
          !.caller = "direct"]]
  /\ UNCHANGED <<calc, stream, balance, ledger, orders, requests, week, grants, last, lastRec>>

\* below the threshold the call is recorded by an entry of amount 0
ReconcileSales_RecordsZero(p, seq) ==
  LET u == proc[p].user
      weeklySales == WeeklySales(u, week)
      q == [proc[p] EXCEPT !.w = week, !.sales = weeklySales,
                           !.snap = Len(ledger)]
  IN /\ proc[p].pc = "rc_sales"
     /\ IF weeklySales < RewardThreshold
        THEN /\ ledger' = Append(ledger,
                  Entry(u, 0, "ADDED",
                        [prefix |-> RewardPrefix, value |-> 0], 0, FALSE))
             /\ ReconcileFinish(p, seq, "function", proc[p].caller, u, week,
                                weeklySales, Returned(p), FALSE, 0)
        ELSE /\ proc' = [proc EXCEPT ![p] = [q EXCEPT !.pc = "rc_lookup"]]
             /\ UNCHANGED <<ledger, last, lastRec>>
     /\ UNCHANGED <<calc, stream, balance, orders, requests, week, grants, pre>>

\* beginTransaction, getWeekBoundaries, the weekly_sales query (the first
\* read of the transaction: it fixes the snapshot), the 4500 threshold
ReconcileSales(p, seq) ==
  LET u == proc[p].user
      weeklySales == WeeklySales(u, week)
      q == [proc[p] EXCEPT !.w = week, !.sales = weeklySales,
                           !.snap = Len(ledger)]
  IN /\ proc[p].pc = "rc_sales"
     /\ IF weeklySales < RewardThreshold
        THEN ReconcileFinish(p, seq, "function", proc[p].caller, u, week,
                             weeklySales, Returned(p), FALSE, 0)
        ELSE /\ proc' = [proc EXCEPT ![p] = [q EXCEPT !.pc = "rc_lookup"]]
             /\ UNCHANGED <<last, lastRec>>
     /\ UNCHANGED <<calc, stream, balance, ledger, orders, requests, week, grants, pre>>

\* the second getWeekBoundaries, the lookup of the existing reward in the
\* transaction's snapshot, the tiers and the incremental reward
ReconcileLookup(p, seq) ==
  LET u == proc[p].user
      existing == ExistingReward(u, week, proc[p].snap)
      totalReward == computeReward(proc[p].sales)
      rewardToAdd == RewardToAdd(totalReward, existing)
  IN /\ proc[p].pc = "rc_lookup"
     /\ IF rewardToAdd > 0
        THEN /\ proc' = [proc EXCEPT ![p].pc = "rc_tx",
                  ![p].total = totalReward, ![p].delta = rewardToAdd]
             /\ UNCHANGED <<last, lastRec>>
        ELSE ReconcileFinish(p, seq, "function", proc[p].caller, u, proc[p].w,
                             proc[p].sales, Returned(p), FALSE, 0)
     /\ UNCHANGED <<calc, stream, balance, ledger, orders, requests, week, grants, pre>>

\* UPDATE users, INSERT transactions, COMMIT
ReconcileCommit(p, seq) ==
  LET u == proc[p].user
  IN /\ proc[p].pc = "rc_tx"
     /\ balance' = [balance EXCEPT ![u] = @ + proc[p].delta]
     /\ ledger' = Append(ledger,
          Entry(u, proc[p].delta, "ADDED",
                MarkerOf(rewardDescription(proc[p].total, proc[p].sales)),
                0, FALSE))
     /\ ReconcileFinish(p, seq, "function", proc[p].caller, u, proc[p].w,
                        proc[p].sales, Returned(p), TRUE, proc[p].delta)
     /\ UNCHANGED <<calc, stream, orders, requests, week, grants, pre>>

\* the error of the reconciler reaches the outer catch of the order handler
ReconcileFail_Rethrown(p, seq) ==
  LET resp == IF proc[p].caller = "order"
              THEN "Failed to update order status" ELSE "threw"
  IN /\ proc[p].pc \in {"rc_sales", "rc_lookup", "rc_tx"}
     /\ Finish(p, seq, [Summary("reconcileFailed", proc[p].user, resp)
                  EXCEPT !.caller = proc[p].caller])
     /\ UNCHANGED <<calc, stream, balance, ledger, orders, requests, week, grants, pre, lastRec>>

\* a statement throws: rollback and rethrow; the order handler logs the
\* error and still answers with success
ReconcileFail(p, seq) ==
  LET resp == IF proc[p].caller = "order" THEN "ok" ELSE "threw"
  IN /\ proc[p].pc \in {"rc_sales", "rc_lookup", "rc_tx"}
     /\ Finish(p, seq, [Summary("reconcileFailed", proc[p].user, resp)
                  EXCEPT !.caller = proc[p].caller])
     /\ UNCHANGED <<calc, stream, balance, ledger, orders, requests, week, grants, pre, lastRec>>

\* -------------------------------------------------- GET /users/dashboard
RECURSIVE DiamondAmountsTo(_, _, _)
DiamondAmountsTo(u, w, n) ==
  IF n = 0 THEN 0
  ELSE (IF orders[n].user = u /\ orders[n].status = "COMPLETED"
           /\ orders[n].week = w
        THEN orders[n].diamondAmount ELSE 0)
       + DiamondAmountsTo(u, w, n - 1)

\* the weekly sales are SUM(diamond_amount), the quantity is left out
DashboardSales_DiamondAmountOnly(p, u, seq) ==
  LET weeklySales == DiamondAmountsTo(u, week, Len(orders))
  IN /\ MayBegin(p, seq)
     /\ Begin(seq, Request("dashboard", u, 0, "none", 0, 0))
     /\ IF weeklySales < RewardThreshold
        THEN ReconcileFinish(p, seq, "dashboard", "dashboard", u, week,
                             weeklySales, "ok", FALSE, 0)
        ELSE /\ proc' = [proc EXCEPT ![p] =
                  [Idle EXCEPT !.pc = "db_lookup", !.user = u,
                     !.caller = "dashboard", !.w = week,
                     !.sales = weeklySales]]
             /\ UNCHANGED <<last, lastRec>>
     /\ UNCHANGED <<calc, stream, balance, ledger, orders, requests, week, grants>>

\* the weekly sales read through the pool, outside any transaction; every
\* order row carries the quantity that createOrder wrote, so that
\* COALESCE(quantity, 1) is the quantity
DashboardSales(p, u, seq) ==
  LET weeklySales == WeeklySales(u, week)
  IN /\ MayBegin(p, seq)
     /\ Begin(seq, Request("dashboard", u, 0, "none", 0, 0))
     /\ IF weeklySales < RewardThreshold
        THEN ReconcileFinish(p, seq, "dashboard", "dashboard", u, week,
                             weeklySales, "ok", FALSE, 0)
        ELSE /\ proc' = [proc EXCEPT ![p] =
                  [Idle EXCEPT !.pc = "db_lookup", !.user = u,
                     !.caller = "dashboard", !.w = week,
                     !.sales = weeklySales]]
             /\ UNCHANGED <<last, lastRec>>
     /\ UNCHANGED <<calc, stream, balance, ledger, orders, requests, week, grants>>

\* beginTransaction, getWeekBoundaries again, the lookup, the tiers
DashboardLookup(p, seq) ==
  LET u == proc[p].user
      existing == ExistingReward(u, week, Len(ledger))
      totalReward == dashboardTotalReward(proc[p].sales)
      rewardToAdd == RewardToAdd(totalReward, existing)
  IN /\ proc[p].pc = "db_lookup"
     /\ IF rewardToAdd > 0
        THEN /\ proc' = [proc EXCEPT ![p].pc = "db_tx",
                  ![p].total = totalReward, ![p].delta = rewardToAdd]
             /\ UNCHANGED <<last, lastRec>>
        ELSE ReconcileFinish(p, seq, "dashboard", "dashboard", u, proc[p].w,
                             proc[p].sales, "ok", FALSE, 0)
     /\ UNCHANGED <<calc, stream, balance, ledger, orders, requests, week, grants, pre>>

\* the period's reward row is rewritten with the new total when one exists
DashboardCommit_RewritesRow(p, seq) ==
  LET u == proc[p].user
      rows == RewardRows(u, week, Len(ledger))
  IN /\ proc[p].pc = "db_tx"
     /\ balance' = [balance EXCEPT ![u] = @ + proc[p].delta]
     /\ ledger' = IF rows = {}
                  THEN Append(ledger,
                         Entry(u, proc[p].delta, "ADDED",
                               [prefix |-> RewardPrefix,
                                value |-> proc[p].total], 0, FALSE))
                  ELSE [ledger EXCEPT
                          ![Max(rows)].amount = @ + proc[p].delta,
                          ![Max(rows)].desc.value = proc[p].total]
     /\ ReconcileFinish(p, seq, "dashboard", "dashboard", u, proc[p].w,
                        proc[p].sales, "ok", TRUE, proc[p].delta)
     /\ UNCHANGED <<calc, stream, orders, requests, week, grants, pre>>

\* UPDATE users, INSERT transactions, COMMIT
DashboardCommit(p, seq) ==
  LET u == proc[p].user
  IN /\ proc[p].pc = "db_tx"
     /\ balance' = [balance EXCEPT ![u] = @ + proc[p].delta]
     /\ ledger' = Append(ledger,
          Entry(u, proc[p].delta, "ADDED",
                MarkerOf(rewardDescription(proc[p].total, proc[p].sales)),
                0, FALSE))
     /\ ReconcileFinish(p, seq, "dashboard", "dashboard", u, proc[p].w,
                        proc[p].sales, "ok", TRUE, proc[p].delta)
     /\ UNCHANGED <<calc, stream, orders, requests, week, grants, pre>>

\* a statement throws: rollback; the dashboard is still served
DashboardFail(p, seq) ==
  /\ proc[p].pc \in {"db_lookup", "db_tx"}
  /\ Finish(p, seq, [Summary("reconcileFailed", proc[p].user, "ok")
               EXCEPT !.caller = "dashboard"])
  /\ UNCHANGED <<calc, stream, balance, ledger, orders, requests, week, grants, pre, lastRec>>

\* --------------------------------------------- POST /users/:userId/points
\* the admin grant: validation, UPDATE users, INSERT transactions, COMMIT
AddPoints(u, amount, description, seq) ==
  /\ seq => AllIdle
  /\ grants < MaxGrants
  /\ amount > 0 /\ amount <= MaxGrantAmount
  /\ grants' = grants + 1
  /\ Begin(seq, Request("addPoints", u, 0, description.prefix, amount, 0))
  /\ balance' = [balance EXCEPT ![u] = @ + Cents(amount)]
  /\ ledger' = Append(ledger,
       Entry(u, Cents(amount), "ADDED", description, 0, TRUE))
  /\ last' = IF seq THEN Summary("addPoints", u, "ok") ELSE last
  /\ UNCHANGED <<calc, stream, orders, requests, week, proc, lastRec>>

\* ---------------------------------------------- POST /users/request-points
RequestPoints(u, amount, seq) ==
  /\ seq => AllIdle
  /\ Len(requests) < MaxPointRequests
  /\ amount > 0 /\ amount <= 100000
  /\ \A i \in 1..Len(requests) :
       ~(requests[i].user = u /\ requests[i].status = "PENDING")
  /\ Begin(seq, Request("requestPoints", u, 0, "none", amount, 0))
  /\ requests' = Append(requests,
       [user |-> u, amount |-> amount, status |-> "PENDING"])
  /\ last' = IF seq THEN Summary("requestPoints", u, "created") ELSE last
  /\ UNCHANGED <<calc, stream, balance, ledger, orders, week, grants, proc, lastRec>>

\* ------------------------------- PATCH /users/point-requests/:requestId
\* the action check and the read of the PENDING request, before the
\* transaction begins
ProcessRequestRead(p, requestId, action, seq) ==
  LET found == /\ requestId <= Len(requests)
               /\ requests[requestId].status = "PENDING"
      error == "Point request not found or already processed"
  IN /\ MayBegin(p, seq)
     /\ action \in {"approve", "reject"}
     /\ Begin(seq, Request("processRequest", "none", requestId, action, 0, 0))
     /\ IF ~found
        THEN Finish(p, seq, Summary("processRequest", "none", error))
        ELSE /\ proc' = [proc EXCEPT ![p] =
                  [Idle EXCEPT !.pc = "pr_tx",
                     !.id = requestId, !.arg = action,
                     !.row = [user |-> requests[requestId].user,
                              pointsUsed |-> requests[requestId].amount]]]
             /\ UNCHANGED last
     /\ UNCHANGED <<calc, stream, balance, ledger, orders, requests, week, grants, lastRec>>

\* the transaction: on approve UPDATE users and INSERT transactions, then
\* UPDATE point_requests, COMMIT
ProcessRequestCommit(p, seq) ==
  LET request == proc[p].row
      requestId == proc[p].id
  IN /\ proc[p].pc = "pr_tx"
     /\ IF proc[p].arg = "approve"
        THEN /\ balance' = [balance EXCEPT
                  ![request.user] = @ + Cents(request.pointsUsed)]
             /\ ledger' = Append(ledger,
                  Entry(request.user, Cents(request.pointsUsed), "ADDED",
                        Text("Point request approved"), requestId, TRUE))
             /\ requests' = [requests EXCEPT ![requestId].status = "APPROVED"]
        ELSE /\ requests' = [requests EXCEPT ![requestId].status = "REJECTED"]
             /\ UNCHANGED <<balance, ledger>>
     /\ Finish(p, seq, Summary("processRequest", request.user, "ok"))
     /\ UNCHANGED <<calc, stream, orders, week, grants, pre, lastRec>>

\* a statement of the transaction throws: rollback, 500
ProcessRequestFail(p, seq) ==
  /\ proc[p].pc = "pr_tx"
  /\ Finish(p, seq, Summary("processRequest", proc[p].row.user,
                    "Failed to process point request"))
  /\ UNCHANGED <<calc, stream, balance, ledger, orders, requests, week, grants, pre, lastRec>>

\* ------------------------------------------------------ specifications
\* the HTTP requests; an admin's grant takes its description from descriptions
\* POST /orders/request with values of the given sets in its body
CreateOrders(seq, amounts, quantities) ==
  \/ \E p \in Procs, u \in Users, a \in amounts, q \in quantities :
       CreateOrderCheck(p, u, a, q, seq)
  \/ \E p \in Procs, e \in BOOLEAN : CreateOrderCommit(p, e, seq)
  \/ \E p \in Procs : CreateOrderSchemaError(p, seq)
  \/ \E p \in Procs : CreateOrderFail(p, seq)

Requests(seq, descriptions) ==
  \/ CreateOrders(seq, DiamondInputs, QuantityInputs)
  \/ \E p \in Procs, o \in 0..MaxOrders, s \in StatusInputs :
       UpdateStatusRead(p, o, s, seq)
  \/ \E p \in Procs : UpdateStatusCommit(p, seq)
  \/ \E p \in Procs : UpdateStatusFail(p, seq)
  \/ \E p \in Procs : ReconcileSales(p, seq)
  \/ \E p \in Procs : ReconcileLookup(p, seq)
  \/ \E p \in Procs : ReconcileCommit(p, seq)
  \/ \E p \in Procs : ReconcileFail(p, seq)
  \/ \E p \in Procs, u \in Users : DashboardSales(p, u, seq)
  \/ \E p \in Procs : DashboardLookup(p, seq)
  \/ \E p \in Procs : DashboardCommit(p, seq)
  \/ \E p \in Procs : DashboardFail(p, seq)
  \/ \E u \in Users, a \in GrantAmounts, d \in descriptions :
       AddPoints(u, a, d, seq)
  \/ \E u \in Users, a \in PointRequestAmounts : RequestPoints(u, a, seq)
  \/ \E p \in Procs, r \in 1..MaxPointRequests, a \in PointRequestActions :
       ProcessRequestRead(p, r, a, seq)
  \/ \E p \in Procs : ProcessRequestCommit(p, seq)
  \/ \E p \in Procs : ProcessRequestFail(p, seq)

\* requests served concurrently, within one reward period, the admin's
\* grants carrying the default description
Next == Requests(FALSE, {QuickStore})
Spec == Init /\ [][Next]_vars

\* requests served one after the other while the clock runs; the admin
\* writes any description, and the exported reconciler is also called alone
NextSeq ==
  \/ Tick
  \/ \E p \in Procs, u \in Users : ReconcileStart(p, u, TRUE)
  \/ Requests(TRUE, GrantDescriptions)
SpecSeq == Init /\ [][NextSeq]_vars

\* orders asked one after the other with any text in the body, by a user
\* whom the admin may have granted points
NextRaw ==
  \/ CreateOrders(TRUE, RawDiamondInputs, RawQuantityInputs)
  \/ \E u \in Users, a \in GrantAmounts : AddPoints(u, a, QuickStore, TRUE)
  \/ \E p \in Procs, o \in 0..MaxOrders, s \in StatusInputs :
       UpdateStatusRead(p, o, s, TRUE)
  \/ \E p \in Procs : UpdateStatusCommit(p, TRUE)
  \/ \E p \in Procs : UpdateStatusFail(p, TRUE)
  \/ \E p \in Procs : ReconcileSales(p, TRUE)
  \/ \E p \in Procs : ReconcileLookup(p, TRUE)
  \/ \E p \in Procs : ReconcileCommit(p, TRUE)
  \/ \E p \in Procs : ReconcileFail(p, TRUE)
SpecRaw == Init /\ [][NextRaw]_vars

\* orders of several sizes completed one after the other while the clock
\* runs, each followed by the reconciler; dashboard reads in between
NextSales ==
  \/ Tick
  \/ CreateOrders(TRUE, SalesDiamondInputs, SalesQuantityInputs)
  \/ \E u \in Users, a \in GrantAmounts : AddPoints(u, a, QuickStore, TRUE)
  \/ \E p \in Procs, o \in 0..MaxOrders, s \in StatusInputs :
       UpdateStatusRead(p, o, s, TRUE)
  \/ \E p \in Procs : UpdateStatusCommit(p, TRUE)
  \/ \E p \in Procs : UpdateStatusFail(p, TRUE)
  \/ \E p \in Procs, u \in Users : ReconcileStart(p, u, TRUE)
  \/ \E p \in Procs : ReconcileSales(p, TRUE)
  \/ \E p \in Procs : ReconcileLookup(p, TRUE)
  \/ \E p \in Procs : ReconcileCommit(p, TRUE)
  \/ \E p \in Procs : ReconcileFail(p, TRUE)
  \/ \E p \in Procs, u \in Users : DashboardSales(p, u, TRUE)
  \/ \E p \in Procs : DashboardLookup(p, TRUE)
  \/ \E p \in Procs : DashboardCommit(p, TRUE)
  \/ \E p \in Procs : DashboardFail(p, TRUE)
SpecSales == Init /\ [][NextSales]_vars

\* ------------------------------------------------- the pure calculators
\* weekly sales are sums of diamond_amount * quantity and every package is
\* a multiple of 10; on multiples of 10 the doubles of the code hold the
\* exact value in cents before Math.round
SalesInputs == {10 * k : k \in 0..MaxSalesTens}

Calculated(fn, arg, out, end) ==
  /\ calc' = [fn |-> fn, arg |-> arg, out |-> out, end |-> end]
  /\ UNCHANGED <<balance, ledger, orders, requests, week, grants, proc, pre,
                 last, lastRec, stream>>

\* ---- the period calculator.  An instant is a number of minutes of
\* Asia/Colombo wall time counted from a Sunday 00:00; the process runs
\* with TZ = Asia/Colombo, which has no daylight saving, so that setDate
\* moves the date by whole calendar days.
MinutesPerDay == 24 * 60
AnchorMinute == 21 * 60 + 30

\* Intl.DateTimeFormat("en-US", {hour12: false}) writes the hour after
\* midnight as "00" or as "24", according to the runtime's ICU
MidnightHours == {0, 24}

\* the instants of MaxDays days, the first of them a Sunday
NowInputs ==
  {d * MinutesPerDay + m : d \in 7..(6 + MaxDays), m \in 0..(MinutesPerDay - 1)}

\* getColomboDateTime: the parts of the instant in Asia/Colombo
getColomboDateTime(now, midnight) ==
  [day |-> now \div MinutesPerDay,
   hour |-> IF (now % MinutesPerDay) \div 60 = 0 THEN midnight
            ELSE (now % MinutesPerDay) \div 60,
   minute |-> now % 60,
   weekday |-> (now \div MinutesPerDay) % 7]

\* 21:30 itself still belongs to the week before
getWeekBoundaries_AnchorExcluded(now, midnight) ==
  LET dt == getColomboDateTime(now, midnight)
      currentDay == dt.weekday
      daysToSubtract ==
        IF currentDay = 4
        THEN (IF dt.hour < 21 \/ (dt.hour = 21 /\ dt.minute <= 30)
              THEN 7 ELSE 0)
        ELSE IF currentDay < 4 THEN 3 + currentDay
        ELSE IF currentDay = 5 THEN 1
        ELSE IF currentDay = 6 THEN 2
        ELSE 3
      thursdayDate == dt.day - daysToSubtract
  IN [weekStart |-> thursdayDate * MinutesPerDay + AnchorMinute,
      weekEnd |-> (thursdayDate + 7) * MinutesPerDay + AnchorMinute]

\* getWeekBoundaries: weekdayMap numbers Sunday 0 .. Saturday 6
getWeekBoundaries(now, midnight) ==
  LET dt == getColomboDateTime(now, midnight)
      currentDay == dt.weekday
      daysToSubtract ==
        IF currentDay = 4
        THEN (IF dt.hour < 21 \/ (dt.hour = 21 /\ dt.minute < 30)
              THEN 7 ELSE 0)
        ELSE IF currentDay < 4 THEN 3 + currentDay
        ELSE IF currentDay = 5 THEN 1
        ELSE IF currentDay = 6 THEN 2
        ELSE 3
      thursdayDate == dt.day - daysToSubtract
  IN [weekStart |-> thursdayDate * MinutesPerDay + AnchorMinute,
      weekEnd |-> (thursdayDate + 7) * MinutesPerDay + AnchorMinute]

\* the clock shows an instant, on a runtime with one of the two renderings
DrawInstant(now, midnight) ==
  /\ calc.fn = "none"
  /\ Calculated("instant", now, midnight, 0)

\* getWeekBoundaries() evaluated at the instant
ApplyGetWeekBoundaries ==
  /\ calc.fn = "instant"
  /\ LET b == getWeekBoundaries(calc.arg, calc.out)
     IN Calculated("getWeekBoundaries", calc.arg, b.weekStart, b.weekEnd)

\* ---- GET /reports/weekly with an explicit weekStart = "YYYY-MM-DD"; the
\* date is a day number, day 0 a Sunday
DateInputs == 7..(6 + MaxDays)

\* a date after Thursday in its week is moved back to that Thursday
weeklyReportPeriod_SnapBack(date) ==
  LET dayOfWeek == date % 7
      daysToAdd == IF dayOfWeek # 4 THEN 4 - dayOfWeek ELSE 0
      weekStartDate == (date + daysToAdd) * MinutesPerDay + AnchorMinute
  IN [weekStartDate |-> weekStartDate,
      weekEndDate |-> weekStartDate + 7 * MinutesPerDay]

\* new Date(year, month - 1, day, 21, 30, 0), moved to a Thursday by
\* getDay and setDate; weekEndDate is set 7 days later
weeklyReportPeriod(date) ==
  LET dayOfWeek == date % 7
      daysToAdd == IF dayOfWeek # 4
                   THEN (IF 4 - dayOfWeek < 0 THEN 4 - dayOfWeek + 7
                         ELSE 4 - dayOfWeek)
                   ELSE 0
      weekStartDate == (date + daysToAdd) * MinutesPerDay + AnchorMinute
  IN [weekStartDate |-> weekStartDate,
      weekEndDate |-> weekStartDate + 7 * MinutesPerDay]

\* the admin asks for the report of the week of a date
DrawDate(date) ==
  /\ calc.fn = "none"
  /\ Calculated("date", date, 0, 0)

\* the handler computes the period of the report
ApplyWeeklyReportPeriod ==
  /\ calc.fn = "date"
  /\ LET period == weeklyReportPeriod(calc.arg)
     IN Calculated("weekly", calc.arg, period.weekStartDate,
                   period.weekEndDate)

TiersWereApplied == calc.fn \in {"calculateAndAddWeeklyReward", "dashboard"}

\* a weekly sales total is given to the calculators
DrawSales(weeklySales) ==
  /\ calc.fn = "none"
  /\ Calculated("sales", weeklySales, 0, 0)

\* the tiers of calculateAndAddWeeklyReward applied to the sales total
ApplyComputeReward ==
  /\ calc.fn = "sales"
  /\ Calculated("calculateAndAddWeeklyReward", calc.arg,
                computeReward(calc.arg), 0)

\* the tiers of the dashboard handler applied to the sales total
ApplyDashboardTotalReward ==
  /\ calc.fn = "sales"
  /\ Calculated("dashboard", calc.arg, dashboardTotalReward(calc.arg), 0)

\* the description written for the total just computed, when a reward is
\* due, is read back by the lookup of the next reconcile
ApplyRewardMarker ==
  /\ TiersWereApplied
  /\ calc.out > 0
  /\ LET marker == MarkerOf(rewardDescription(calc.out, calc.arg))
     IN Calculated("marker", calc.out, marker.value,
                   IF marker.prefix = RewardPrefix THEN 1 ELSE 0)

\* an input is drawn when no calculation is under way, then a calculator
\* is applied to it
NextCalc ==
  \/ /\ calc.fn = "none"
     /\ \/ \E weeklySales \in SalesInputs : DrawSales(weeklySales)
        \/ \E now \in NowInputs, midnight \in MidnightHours :
             DrawInstant(now, midnight)
        \/ \E date \in DateInputs : DrawDate(date)
  \/ ApplyComputeReward
  \/ ApplyDashboardTotalReward
  \/ ApplyGetWeekBoundaries
  \/ ApplyWeeklyReportPeriod
  \/ ApplyRewardMarker
SpecCalc == Init /\ [][NextCalc]_vars

\* ------------------------------------------------- the status streams
Database == <<balance, ledger, orders, requests, week, grants, proc, pre,
              last, lastRec, calc>>

\* a subscriber that was removed from the registry or whose write threw
Gone(r) ==
  /\ stream.res[r].phase # "none"
  /\ \/ stream.res[r].failed
     \/ r \notin stream.subscribers[stream.res[r].key].set

\* res.write(...) called by the named code
Written(response, r, by) ==
  IF Gone(r) /\ response.writtenAfter = "none"
  THEN [response EXCEPT !.writtenAfter = by]
  ELSE response

\* subscribers.get(key) || new Set(); set.add(res); subscribers.set(key, set)
addSubscriber(subscribers, idNumber, res) ==
  [subscribers EXCEPT ![idNumber] =
     [has |-> TRUE, set |-> subscribers[idNumber].set \cup {res}]]

\* set.delete(res); the key is deleted when the set has become empty
removeSubscriber(subscribers, idNumber, res) ==
  IF ~subscribers[idNumber].has THEN subscribers
  ELSE IF subscribers[idNumber].set \ {res} = {}
  THEN [subscribers EXCEPT ![idNumber] = Undefined]
  ELSE [subscribers EXCEPT ![idNumber].set = @ \ {res}]

\* GET /auth/status-stream/:idNumber for a PENDING user: the response is
\* subscribed, its keep-alive interval is set and the close listener of
\* its request is registered
OpenStream(r, idNumber) ==
  /\ stream.res[r].phase = "none"
  /\ stream' = [stream EXCEPT
       !.subscribers = addSubscriber(@, idNumber, r),
       !.res[r] = [NoResponse EXCEPT !.phase = "open", !.key = idNumber,
                                    !.interval = TRUE]]
  /\ UNCHANGED Database

\* the interval fires: res.write(": keep-alive")
KeepAlive(r) ==
  /\ stream.res[r].interval
  /\ stream' = [stream EXCEPT !.res[r] = Written(@, r, "keepAlive")]
  /\ UNCHANGED Database

\* the close event of the request: clearInterval and removeSubscriber
CloseStream(r) ==
  /\ stream.res[r].phase = "open"
  /\ stream' = [stream EXCEPT
       !.subscribers = removeSubscriber(@, stream.res[r].key, r),
       !.res[r].phase = "closed",
       !.res[r].interval = FALSE]
  /\ UNCHANGED Database

\* notifyStatus(idNumber, status), called by PATCH /users/:userId/status
\* after its UPDATE: every subscriber of the key is written to; the write
\* throws for the responses of throwing
notifyStatus(idNumber, status, throwing) ==
  LET set == stream.subscribers[idNumber].set
      remaining == IF status # "PENDING" THEN {} ELSE set \ throwing
  IN /\ throwing \subseteq set
     /\ stream' = [stream EXCEPT
          !.subscribers =
             IF ~stream.subscribers[idNumber].has \/ set = {} THEN @
             ELSE IF remaining = {}
             THEN [@ EXCEPT ![idNumber] = Undefined]
             ELSE [@ EXCEPT ![idNumber].set = remaining],
          !.res = [r \in Responses |->
             IF r \notin set THEN @[r]
             ELSE IF r \in throwing
             THEN [Written(@[r], r, "notifyStatus") EXCEPT !.failed = TRUE]
             ELSE [Written(@[r], r, "notifyStatus") EXCEPT
                     !.ended = @ \/ status # "PENDING"]],
          !.notified = [idNumber |-> idNumber, status |-> status,
                        turn |-> 1 - @.turn]]
     /\ UNCHANGED Database

\* status streams are opened and closed, the admin changes user statuses
\* and the keep-alive intervals fire
NextStream ==
  \/ \E r \in Responses, idNumber \in IdNumbers : OpenStream(r, idNumber)
  \/ \E r \in Responses : KeepAlive(r)
  \/ \E r \in Responses : CloseStream(r)
  \/ \E idNumber \in IdNumbers, status \in NotifiedStatuses,
        throwing \in SUBSET Responses :
       notifyStatus(idNumber, status, throwing)
SpecStream == Init /\ [][NextStream]_vars

\* ---------------------------------------------------------------- claims
HasEntry(type, prefix) ==
  \E i \in 1..Len(ledger) :
    ledger[i].type = type /\ ledger[i].desc.prefix = prefix

\* C1: for every user, in every state with no transaction in flight, the
\* committed pointsBalance equals the signed sum of the user's ledger
\* entries (ADDED and REFUNDED count positive, DEDUCTED negative)
C1_BalanceIsLedgerSum ==
  AllIdle => \A u \in Users : balance[u] = LedgerSum(u)

\* an order was created and rejected, a reward was paid, the admin granted
\* points and a point request was approved, and no transaction is in flight
C1_Witness ==
  /\ AllIdle
  /\ HasEntry("DEDUCTED", "Diamond request")
  /\ HasEntry("REFUNDED", "Order rejected")
  /\ HasEntry("ADDED", RewardPrefix)
  /\ HasEntry("ADDED", "Quick Store")
  /\ HasEntry("ADDED", "Point request approved")

RECURSIVE RewardCreditedTo(_, _, _)
RewardCreditedTo(u, w, n) ==
  IF n = 0 THEN 0
  ELSE (IF /\ ledger[n].user = u /\ ledger[n].type = "ADDED"
           /\ ledger[n].desc.prefix = RewardPrefix /\ ~ledger[n].admin
           /\ ledger[n].week = w
        THEN ledger[n].amount ELSE 0)
       + RewardCreditedTo(u, w, n - 1)

\* what the reconcilers credited to u in period w
RewardCredited(u, w) == RewardCreditedTo(u, w, Len(ledger))

\* C2: for any interleaving of reconciliations for one user in one period,
\* the weekly-reward entries credited in the period never add up to more
\* than computeReward(weeklySales) (stated for the runs in which no order
\* was rejected, so that the sales of the period never went down)
C2_NoDoubleCredit ==
  \A u \in Users :
    (\A i \in 1..Len(orders) : orders[i].status # "REJECTED")
      => RewardCredited(u, week) <= computeReward(WeeklySales(u, week))

\* C3: an order's status is never changed again once it is COMPLETED or
\* REJECTED, whatever the interleaving of the status-update requests
C3_StatusChangesOnce ==
  [][\A i \in 1..Len(orders) :
       orders[i].status # "PENDING" => orders'[i].status = orders[i].status]_vars

\* C4: pointsBalance is never negative in any reachable state
C4_BalanceNeverNegative == \A u \in Users : balance[u] >= 0

RECURSIVE RefundedTo(_, _)
RefundedTo(orderId, n) ==
  IF n = 0 THEN 0
  ELSE (IF ledger[n].type = "REFUNDED" /\ ledger[n].ref = orderId
        THEN ledger[n].amount ELSE 0)
       + RefundedTo(orderId, n - 1)

\* the total refunded for an order
Refunded(orderId) == RefundedTo(orderId, Len(ledger))

\* C5: for every order the total refunded is 0 or exactly its pointsUsed:
\* no order is refunded more than once
C5_RefundedAtMostOnce ==
  \A i \in 1..Len(orders) :
    Refunded(i) \in {0, Cents(orders[i].pointsUsed)}

\* the handler of the request pre.req has finished, nothing ran since
Served(kind) == AllIdle /\ pre.req.kind = kind

Unchanged == balance = pre.balance /\ ledger = pre.ledger /\ orders = pre.orders

\* a status update was asked for an order that was COMPLETED or REJECTED
OnTerminalOrder ==
  /\ Served("updateStatus")
  /\ pre.req.arg \in {"COMPLETED", "REJECTED"}
  /\ pre.req.id \in 1..Len(pre.orders)
  /\ pre.orders[pre.req.id].status \in {"COMPLETED", "REJECTED"}

\* C6: a status update (COMPLETED or REJECTED) on an order that is already
\* COMPLETED or REJECTED is answered with the error "Order is not pending"
\* and leaves the orders, the balances and the ledger as they were
C6_TerminalOrderRefused ==
  OnTerminalOrder => last.resp = "Order is not pending" /\ Unchanged

\* a rejection was asked for a COMPLETED order and was refused
C6_Witness ==
  /\ OnTerminalOrder
  /\ pre.req.arg = "REJECTED"
  /\ pre.orders[pre.req.id].status = "COMPLETED"
  /\ last.resp = "Order is not pending"

\* a well-formed order was asked by a user whose balance did not cover it
Uncovered ==
  /\ Served("createOrder")
  /\ pre.req.amt.rest = "" /\ pre.req.amt.digits \in DIAMOND_PACKAGES
  /\ pre.req.qty.rest = ""
  /\ pre.req.qty.digits \in MinQuantity..MaxQuantity
  /\ pre.req.amt.digits * pre.req.qty.digits <= MaxOrderPoints
  /\ pre.balance[pre.req.user]
       < Cents(pre.req.amt.digits * pre.req.qty.digits)

\* C7: createOrder with pointsBalance < diamondAmount x quantity is answered
\* with "Insufficient points" and leaves the balance, the ledger and the
\* orders as they were
C7_InsufficientPointsRefused ==
  Uncovered => last.resp = "Insufficient points" /\ Unchanged

\* refused with points left on the balance, but fewer than the order needs
C7_Witness ==
  /\ Uncovered
  /\ pre.balance[pre.req.user] > 0
  /\ last.resp = "Insufficient points"

\* calculateAndAddWeeklyReward returned for the second time in a row for the
\* same user, both calls inside one period
SecondReconcile ==
  /\ Served("reconcile")
  /\ last.kind = "reconcile"
  /\ pre.prevKind = "reconcile" /\ pre.prevImpl = "function"
  /\ pre.prevUser = pre.req.user
  /\ last.prev.valid /\ last.prev.w0 = last.w1

\* C8: the second of two calls of calculateAndAddWeeklyReward in succession
\* for one user in one period returns rewardAdded = false and leaves the
\* balance and the ledger as the first call left them
C8_SecondReconcileAddsNothing ==
  SecondReconcile =>
    ~last.added /\ balance = pre.balance /\ ledger = pre.ledger

\* the second call found the reward entry that the first call had written
C8_Witness ==
  /\ SecondReconcile
  /\ last.sales >= RewardThreshold
  /\ Len(ledger) > 0
  /\ ledger[Len(ledger)].desc.prefix = RewardPrefix
  /\ ~ledger[Len(ledger)].admin

\* C9: when the weekly sales grew from S1 to S2 (4500 <= S1 <= S2) between
\* two reconcile calls of one period, the second call credits exactly
\* computeReward(S2) - computeReward(S1)
C9_SecondCallCreditsDifference ==
  (/\ AllIdle
   /\ last.kind = "reconcile"
   /\ last.prev.valid /\ last.prev.w0 = last.w1
   /\ last.prev.sales >= RewardThreshold
   /\ last.sales >= last.prev.sales)
  => last.credited
       = computeReward(last.sales) - computeReward(last.prev.sales)

\* C10: a createOrder that commits adds, in one step, exactly one PENDING
\* order with pointsUsed = diamondAmount x quantity, one DEDUCTED entry of
\* pointsUsed and the decrement of the balance by pointsUsed; no step adds
\* an order, a DEDUCTED entry or a decrement without the other two
C10_CreateOrderAllOrNothing ==
  [][(\/ Len(orders') > Len(orders)
      \/ \E u \in Users : balance'[u] < balance[u]
      \/ /\ Len(ledger') > Len(ledger)
         /\ ledger'[Len(ledger')].type = "DEDUCTED")
     => LET id == Len(orders) + 1
            o == orders'[id]
        IN /\ Len(orders') = id
           /\ SubSeq(orders', 1, Len(orders)) = orders
           /\ o.status = "PENDING"
           /\ o.pointsUsed = o.diamondAmount * o.quantity
           /\ ledger' = Append(ledger, ledger'[Len(ledger')])
           /\ ledger'[Len(ledger')].type = "DEDUCTED"
           /\ ledger'[Len(ledger')].user = o.user
           /\ ledger'[Len(ledger')].ref = id
           /\ ledger'[Len(ledger')].amount = Cents(o.pointsUsed)
           /\ balance' = [balance EXCEPT ![o.user] = @ - Cents(o.pointsUsed)]
    ]_vars

\* one order was created while another createOrder is inside its transaction
C10_Witness ==
  /\ Len(orders) = 1
  /\ orders[1].status = "PENDING"
  /\ balance["u1"] = LedgerSum("u1")
  /\ \E p \in Procs : proc[p].pc = "co_tx"

\* the reconciler that an order completion called has thrown
ReconcilerFailedAfterCompletion ==
  /\ Served("updateStatus")
  /\ last.kind = "reconcileFailed"
  /\ last.caller = "order"

\* C11: the COMPLETED status is committed before the reconciler is called;
\* when the reconciler throws, the order is COMPLETED, nothing else of the
\* database has changed, and the status update answers with success
C11_CompletionSurvivesReconcilerFailure ==
  /\ \A p \in Procs :
       (proc[p].caller = "order"
        /\ proc[p].pc \in {"rc_sales", "rc_lookup", "rc_tx"})
       => orders[proc[p].id].status = "COMPLETED"
  /\ ReconcilerFailedAfterCompletion =>
       /\ pre.orders[pre.req.id].status = "PENDING"
       /\ orders = [pre.orders EXCEPT ![pre.req.id].status = "COMPLETED"]
       /\ balance = pre.balance /\ ledger = pre.ledger
       /\ last.resp = "ok"

\* the reconciler threw while a reward was due for the completed order
C11_Witness ==
  /\ ReconcilerFailedAfterCompletion
  /\ WeeklySales(last.user, week) >= RewardThreshold
  /\ RewardCredited(last.user, week) = 0

\* no row written by the admin grant carries the reward prefix
NoRewardLikeGrant ==
  \A i \in 1..Len(ledger) :
    ledger[i].admin => ledger[i].desc.prefix # RewardPrefix

\* the request before the last one completed an order and its reconciler
\* threw; the last request was a reconciliation trigger for the order's
\* user (a dashboard read or another completion) and it succeeded
CaughtUpAfterFailure ==
  /\ AllIdle
  /\ pre.prevKind = "reconcileFailed" /\ pre.prevId \in 1..Len(pre.orders)
  /\ pre.req.kind \in {"dashboard", "updateStatus"}
  /\ last.kind = "reconcile"
  /\ last.user = pre.prevUser

\* C12: after an order was completed and its immediate reconciliation
\* failed, the next successful reconciliation trigger for the user leaves
\* the rewards credited for the period of the order's createdAt equal to
\* computeReward of that period's completed sales (stated for ledgers in
\* which no admin grant carries the reward prefix)
C12_NextTriggerCatchesUp ==
  (CaughtUpAfterFailure /\ NoRewardLikeGrant) =>
    LET o == orders[pre.prevId]
    IN RewardCredited(o.user, o.week)
         = computeReward(WeeklySales(o.user, o.week))

\* a tier calculation has been applied
TiersApplied == calc.fn \in {"calculateAndAddWeeklyReward", "dashboard"}

\* C13: both copies of the tier calculation return 0 for weekly sales of
\* 4,500, 135.00 for 18,000, 567.00 for 45,000, 1512.00 for 90,000 and
\* 1772.00 for 100,000
C13_RewardAtBandEdges ==
  TiersApplied =>
    /\ calc.arg = 4500 => calc.out = 0
    /\ calc.arg = 18000 => calc.out = 13500
    /\ calc.arg = 45000 => calc.out = 56700
    /\ calc.arg = 90000 => calc.out = 151200
    /\ calc.arg = 100000 => calc.out = 177200

\* the dashboard's copy was applied to 100,000 and returned 1772.00
C13_Witness ==
  calc.fn = "dashboard" /\ calc.arg = 100000 /\ calc.out = 177200

\* cents of reward that 10 more units of sales earn above weeklySales
BandRate(weeklySales) ==
  IF weeklySales < 4500 THEN 0
  ELSE IF weeklySales < 18000 THEN 10
  ELSE IF weeklySales < 45000 THEN 16
  ELSE IF weeklySales < 90000 THEN 21
  ELSE 26

\* sales totals against which monotonicity is compared
Milestones == {500 * k : k \in 0..240}

\* C14: computeReward is 0 up to 4,500, is monotonic, and charges each
\* portion of the sales at the rate of its band only: 10 more units earn
\* 10 times the rate of the band they fall in, so there is no jump at a
\* band boundary
C14_MarginalAndMonotonic ==
  calc.fn = "calculateAndAddWeeklyReward" =>
    /\ calc.arg <= 4500 => calc.out = 0
    /\ \A S1 \in Milestones : S1 <= calc.arg => computeReward(S1) <= calc.out
    /\ \A S2 \in Milestones : calc.arg <= S2 => calc.out <= computeReward(S2)
    /\ computeReward(calc.arg + 10) - calc.out = BandRate(calc.arg)

\* computeReward was applied just above the boundary between two bands
C14_Witness ==
  /\ calc.fn = "calculateAndAddWeeklyReward"
  /\ calc.arg = 45010
  /\ calc.out = 56721

\* the instant is a Thursday 21:30
ThursdayAnchor(now) ==
  (now \div MinutesPerDay) % 7 = 4 /\ now % MinutesPerDay = AnchorMinute

\* C15: getWeekBoundaries evaluated at Thursday 21:29 returns a weekStart
\* exactly seven days earlier than the one it returns at 21:30 of the
\* same Thursday
C15_BoundaryMinute ==
  (calc.fn = "getWeekBoundaries" /\ ThursdayAnchor(calc.arg)) =>
    \A midnight \in MidnightHours :
      getWeekBoundaries(calc.arg - 1, midnight).weekStart
        = calc.out - 7 * MinutesPerDay

\* getWeekBoundaries was evaluated at a Thursday 21:30 and returned that
\* instant as weekStart
C15_Witness ==
  /\ calc.fn = "getWeekBoundaries"
  /\ ThursdayAnchor(calc.arg)
  /\ calc.out = calc.arg

\* C16: for every instant now, getWeekBoundaries returns a weekStart that
\* is a Thursday 21:30 with weekStart <= now < weekEnd, and a weekEnd
\* exactly 7 days after weekStart
C16_WellFormedPeriod ==
  calc.fn = "getWeekBoundaries" =>
    /\ ThursdayAnchor(calc.out)
    /\ calc.out <= calc.arg /\ calc.arg < calc.end
    /\ calc.end = calc.out + 7 * MinutesPerDay

\* C17: an explicit start date that is not a Thursday is moved forward to
\* the first Thursday 21:30 at or after it, never backwards; a Thursday is
\* kept; the period ends 7 days after its start
C17_ExplicitDateSnapsForward ==
  calc.fn = "weekly" =>
    /\ ThursdayAnchor(calc.out)
    /\ calc.out >= calc.arg * MinutesPerDay
    /\ calc.out < (calc.arg + 7) * MinutesPerDay
    /\ calc.arg % 7 = 4 => calc.out = calc.arg * MinutesPerDay + AnchorMinute
    /\ calc.end = calc.out + 7 * MinutesPerDay

\* a Friday was given and the period starts on the Thursday 6 days later
C17_Witness ==
  /\ calc.fn = "weekly"
  /\ calc.arg % 7 = 5
  /\ calc.out = (calc.arg + 6) * MinutesPerDay + AnchorMinute

\* C18: the ledger is append-only: every step keeps every row of the
\* transactions table, with the same user, amount, kind and description,
\* and only adds rows after them
C18_LedgerAppendOnly ==
  [][/\ Len(ledger') >= Len(ledger)
     /\ SubSeq(ledger', 1, Len(ledger)) = ledger]_vars

\* rows of every kind were written, and a second reward row in one period
C18_Witness ==
  /\ HasEntry("DEDUCTED", "Diamond request")
  /\ HasEntry("REFUNDED", "Order rejected")
  /\ \E i, j \in 1..Len(ledger) :
       /\ i < j
       /\ ledger[i].desc.prefix = RewardPrefix
       /\ ledger[j].desc.prefix = RewardPrefix

\* a datastore error ended the transaction of the last handler: of order
\* creation, of the order status update, or of a reward reconciliation
FailedInTransaction ==
  /\ AllIdle
  /\ \/ last.kind \in {"createOrder", "updateStatus"}
        /\ last.resp \in {"rolled back", "Database schema error"}
     \/ last.kind = "reconcileFailed"

\* the orders as they were when the failed operation started: for the
\* reconciler that an order completion calls, after the status was committed
OrdersBeforeOperation ==
  IF last.kind = "reconcileFailed" /\ last.caller = "order"
  THEN [pre.orders EXCEPT ![pre.req.id].status = "COMPLETED"]
  ELSE pre.orders

\* C19: after a datastore error inside the transaction of order creation,
\* order status update or reward reconciliation, the balance, the ledger
\* and the status of every order are as before the operation started, and
\* no ledger entry is without its balance change
C19_FailureLeavesNoPartialState ==
  FailedInTransaction =>
    /\ balance = pre.balance
    /\ ledger = pre.ledger
    /\ orders = OrdersBeforeOperation
    /\ \A u \in Users : balance[u] = LedgerSum(u)

\* the rejection of an order failed inside its transaction, after points
\* had been deducted for the order
C19_Witness ==
  /\ FailedInTransaction
  /\ last.kind = "updateStatus"
  /\ pre.req.arg = "REJECTED"
  /\ orders[pre.req.id].status = "PENDING"
  /\ HasEntry("DEDUCTED", "Diamond request")

\* an order was asked with a diamondAmount that is not a package of the
\* list or with a quantity that is not one of 1..100
OutsideTheLists ==
  /\ Served("createOrder")
  /\ \/ pre.req.amt \notin {Exact(n) : n \in DIAMOND_PACKAGES}
     \/ pre.req.qty \notin {Exact(n) : n \in MinQuantity..MaxQuantity}

\* the 400 responses that createOrder gives before beginTransaction
RejectedBeforeTransaction ==
  {"Invalid diamond amount", "Quantity must be between 1 and 100",
   "Order amount too large", "Insufficient points"}

\* C20: createOrder with a diamondAmount outside the package list or a
\* quantity outside 1..100 is rejected before any transaction is opened:
\* the orders, the balance and the ledger are unchanged; and every order
\* has pointsUsed <= 1,000,000
C20_InvalidInputRejected ==
  /\ OutsideTheLists =>
       last.resp \in RejectedBeforeTransaction /\ Unchanged
  /\ \A i \in 1..Len(orders) : orders[i].pointsUsed <= MaxOrderPoints

\* the rows of period w that the reconciler's lookup takes for weekly-reward
\* entries of user u: ADDED rows whose description begins with the tag
RewardEntries(u, w) ==
  {i \in 1..Len(ledger) : /\ ledger[i].user = u
                          /\ ledger[i].type = "ADDED"
                          /\ ledger[i].desc.prefix = RewardPrefix
                          /\ ledger[i].week = w}

RECURSIVE RewardEntryAmountsTo(_, _, _)
RewardEntryAmountsTo(u, w, n) ==
  IF n = 0 THEN 0
  ELSE (IF n \in RewardEntries(u, w) THEN ledger[n].amount ELSE 0)
       + RewardEntryAmountsTo(u, w, n - 1)

\* the sum of the amounts of the period's weekly-reward entries
RewardEntryAmounts(u, w) == RewardEntryAmountsTo(u, w, Len(ledger))

\* C21: under sequential execution every weekly-reward entry has a
\* positive amount, the totals encoded in the successive reward entries of
\* a period never decrease, and the amounts of the period's reward entries
\* add up to the total encoded in the most recent of them, which is what
\* the next reconcile reads back as the amount already granted
C21_RewardOnlyGrows ==
  \A u \in Users, w \in 0..MaxWeek :
    LET rows == RewardEntries(u, w)
    IN /\ \A i \in rows : ledger[i].amount > 0
       /\ \A i, j \in rows :
            i < j => ledger[i].desc.value <= ledger[j].desc.value
       /\ rows # {} =>
            RewardEntryAmounts(u, w) = ledger[Max(rows)].desc.value

\* a reconciliation returned, of the dashboard or of the function, for a
\* user whose completed sales of the current period are below the threshold
ReconciledBelowThreshold ==
  /\ AllIdle
  /\ last.kind = "reconcile"
  /\ WeeklySales(last.user, last.w0) < RewardThreshold

FirstOfNewPeriod ==
  /\ AllIdle
  /\ last.kind = "reconcile"
  /\ last.w0 > 0 /\ last.w0 = last.w1
  /\ last.sales >= RewardThreshold
  /\ RewardRows(last.user, last.w0, Len(pre.ledger)) = {}

C24_MarkerRoundTrip ==
  calc.fn = "marker" => calc.end = 1 /\ calc.out = calc.arg

\* the description of a total of 1772.00 was written and read back
C24_Witness ==
  calc.fn = "marker" /\ calc.arg = 177200 /\ calc.out = 177200

\* a reconciliation of either implementation returned, the clock having
\* stayed in one period while it ran
Reconciled ==
  /\ AllIdle
  /\ last.kind = "reconcile"
  /\ last.w0 = last.w1

C26_OnePeriodPerReconcile ==
  \A p \in Procs :
    proc[p].pc \in {"rc_tx", "db_tx"} =>
      proc[p].delta
        = RewardToAdd(proc[p].total,
                      ExistingReward(proc[p].user, proc[p].w, Len(ledger)))

\* the total recorded by the most recent reward entry that a reconciler
\* wrote for u in period w among the first n rows; -1 when there is none
OwnBaseline(u, w, n) ==
  LET rows == {i \in RewardRows(u, w, n) : ~ledger[i].admin}
  IN IF rows = {} THEN -1 ELSE ledger[Max(rows)].desc.value

\* C27: what a reconciliation credits depends only on the completed sales
\* and on the reward entries that the reconcilers wrote: an admin grant,
\* whatever its description, is never taken as the prior-reward entry of
\* the period and never changes the delta of a later reconcile
C27_GrantNeverBaseline ==
  Reconciled =>
    last.credited
      = IF last.sales < RewardThreshold THEN 0
        ELSE RewardToAdd(computeReward(last.sales),
                         OwnBaseline(last.user, last.w0, Len(pre.ledger)))

\* the ledger rows of a kind that refer to an order
EntriesOf(type, orderId) ==
  {k \in 1..Len(ledger) : ledger[k].type = type /\ ledger[k].ref = orderId}

\* C28: in every committed state each order has exactly one DEDUCTED entry,
\* of its pointsUsed, and has a REFUNDED entry if and only if its status is
\* REJECTED: a COMPLETED order has never been refunded, whatever the
\* interleaving of a complete and a reject request on the order
C28_EntriesMatchStatus ==
  \A i \in 1..Len(orders) :
    /\ Cardinality(EntriesOf("DEDUCTED", i)) = 1
    /\ \A k \in EntriesOf("DEDUCTED", i) :
         ledger[k].amount = Cents(orders[i].pointsUsed)
    /\ (EntriesOf("REFUNDED", i) # {}) <=> (orders[i].status = "REJECTED")

\* the ADDED rows written by the approval of a point request
ApprovalEntries(requestId) ==
  {k \in 1..Len(ledger) : /\ ledger[k].type = "ADDED"
                          /\ ledger[k].desc.prefix = "Point request approved"
                          /\ ledger[k].ref = requestId}

\* C29: a point request is processed at most once, whatever the sequence or
\* interleaving of approve and reject requests on it: its status leaves
\* PENDING once and is not changed again, and the balance is credited with
\* the requested amount, with one ADDED entry, at most once
C29_ProcessedAtMostOnce ==
  /\ [](\A r \in 1..Len(requests) : Cardinality(ApprovalEntries(r)) <= 1)
  /\ [][\A r \in 1..Len(requests) :
          requests[r].status # "PENDING"
            => requests'[r].status = requests[r].status]_vars

\* C30: after any sequence of addSubscriber, removeSubscriber and
\* notifyStatus calls the registry maps no id number to an empty set; a
\* subscriber that was removed or whose write failed is not written to
\* again; and a notifyStatus(id, status) with a status other than PENDING
\* leaves every subscriber of the id removed, and ended when the write to
\* it went through, and the subscribers of the other ids as they were
C30_SubscriberRegistry ==
  /\ [](\A key \in IdNumbers :
          stream.subscribers[key].has => stream.subscribers[key].set # {})
  /\ [](\A r \in Responses : stream.res[r].writtenAfter = "none")
  /\ [][(/\ stream'.notified # stream.notified
         /\ stream'.notified.status # "PENDING")
        => LET idNumber == stream'.notified.idNumber
           IN /\ stream'.subscribers[idNumber] = Undefined
              /\ \A r \in stream.subscribers[idNumber].set :
                   stream'.res[r].ended \/ stream'.res[r].failed
              /\ \A key \in IdNumbers \ {idNumber} :
                   /\ stream'.subscribers[key] = stream.subscribers[key]
                   /\ \A r \in stream.subscribers[key].set :
                        stream'.res[r] = stream.res[r]]_vars

====
